---- MODULE Spec2Model ----
(***************************************************************************)
(* Model of the Telegram sniping bot's dispatcher, src/src/telegram/bot.rs *)
(*                                                                         *)
(* One action per endpoint of schema().  An action runs the whole handler  *)
(* for one update of one chat: the handler is straight-line code whose     *)
(* steps are transport calls, dialogue calls and one validator call, and   *)
(* every transport call is followed by `?`, so a run is the execution of a *)
(* prefix of the handler's list of steps (its "ops").  Handlers of         *)
(* different chats share only TRADE_TOKEN and WATCHED_WALLETS, each        *)
(* written once per handler under its mutex and read by no handler, so     *)
(* interleaving whole handlers yields every store/dialogue state that      *)
(* interleaving at the await points yields at handler boundaries.          *)
(*                                                                         *)
(* Option<T> is a sequence: None is << >>, Some(x) is << x >>.             *)
(* A token (&str) is a sequence of one-character strings.                  *)
(***************************************************************************)
EXTENDS Integers, Sequences, FiniteSets, TLC

(***************************************************************************)
(* Bounds of the model.                                                    *)
(***************************************************************************)
\* number of chats talking to the bot
NumChats == 2
\* number of confirmation prompts a chat holds undeleted at one time
MaxPrompts == 1

Chats == 1..NumChats

(***************************************************************************)
(* Option<T>                                                               *)
(***************************************************************************)
None == << >>
Some(x) == << x >>
is_some(o) == o # << >>
unwrap(o) == o[1]

(***************************************************************************)
(* Tokens                                                                  *)
(***************************************************************************)
\* length of an ethereum address, the 0x prefix included
AddrLen == 42

Rep(ch, n) == [i \in 1..n |-> ch]

\* str::starts_with
starts_with(tok, prefix) ==
    /\ Len(tok) >= Len(prefix)
    /\ SubSeq(tok, 1, Len(prefix)) = prefix

Prefix0x == << "0", "x" >>

\* the address tokens the model feeds the validators
GoodAddr == Prefix0x \o Rep("1", AddrLen - 2)
OtherAddr == Prefix0x \o Rep("z", AddrLen - 2)
ShortAddr == Prefix0x \o Rep("1", AddrLen - 3)
LongAddr == Prefix0x \o Rep("1", AddrLen - 1)
NoPrefixAddr == Rep("1", AddrLen)
TinyAddr == << "0", "x", "s", "h", "o", "r", "t" >>
UpperXAddr == << "0", "X" >> \o Rep("1", AddrLen - 2)

\* the number tokens the model feeds the validators
Tok1p5 == << "1", ".", "5" >>
Tok0p5 == << "0", ".", "5" >>
TokNeg == << "-", "2", "0", "0" >>
TokAbc == << "a", "b", "c" >>
TokDot == << "." >>
TokNan == << "N", "a", "N" >>

(***************************************************************************)
(* str::parse::<f64>() and str::parse::<f32>(): the grammar of Rust's      *)
(* FromStr for floats,                                                     *)
(*   Float  ::= Sign? ( 'inf' | 'infinity' | 'nan' | Number )              *)
(*   Number ::= ( Digit+ | Digit+ '.' Digit* | Digit* '.' Digit+ ) Exp?    *)
(*   Exp    ::= 'e' Sign? Digit+                                           *)
(* The value is kept as an exact decimal mant * 10^exp with mant not a     *)
(* multiple of 10; binary rounding and overflow are not modelled.          *)
(***************************************************************************)
IsDigit(ch) == ch \in {"0", "1", "2", "3", "4", "5", "6", "7", "8", "9"}

DigitVal(ch) ==
    CASE ch = "0" -> 0 [] ch = "1" -> 1 [] ch = "2" -> 2 [] ch = "3" -> 3
      [] ch = "4" -> 4 [] ch = "5" -> 5 [] ch = "6" -> 6 [] ch = "7" -> 7
      [] ch = "8" -> 8 [] ch = "9" -> 9

AllDigits(s) == \A i \in 1..Len(s) : IsDigit(s[i])

RECURSIVE DigitsVal(_)
DigitsVal(s) ==
    IF s = << >> THEN 0
    ELSE 10 * DigitsVal(SubSeq(s, 1, Len(s) - 1)) + DigitVal(s[Len(s)])

\* u8::to_ascii_lowercase on the letters of the special values
Lower(ch) ==
    CASE ch = "I" -> "i" [] ch = "N" -> "n" [] ch = "F" -> "f" [] ch = "A" -> "a"
      [] ch = "T" -> "t" [] ch = "Y" -> "y" [] ch = "E" -> "e"
      [] OTHER -> ch

LowerSeq(s) == [i \in 1..Len(s) |-> Lower(s[i])]

HasSign(s) == Len(s) > 0 /\ s[1] \in {"+", "-"}
StripSign(s) == IF HasSign(s) THEN Tail(s) ELSE s

\* positions of ch in s
Positions(s, ch) == {i \in 1..Len(s) : s[i] = ch}

Min(S) == CHOOSE x \in S : \A y \in S : x <= y

\* the part of s before its exponent mark, and the exponent text after it
ExpPos(s) == Positions(LowerSeq(s), "e")
MantPart(s) == IF ExpPos(s) = {} THEN s ELSE SubSeq(s, 1, Min(ExpPos(s)) - 1)
ExpPart(s) == IF ExpPos(s) = {} THEN << >> ELSE SubSeq(s, Min(ExpPos(s)) + 1, Len(s))

IntPart(m) == IF Positions(m, ".") = {} THEN m ELSE SubSeq(m, 1, Min(Positions(m, ".")) - 1)
FracPart(m) == IF Positions(m, ".") = {} THEN << >> ELSE SubSeq(m, Min(Positions(m, ".")) + 1, Len(m))

IsNumber(s) ==
    /\ AllDigits(IntPart(MantPart(s)))
    /\ AllDigits(FracPart(MantPart(s)))
    /\ Len(IntPart(MantPart(s))) + Len(FracPart(MantPart(s))) >= 1
    /\ ExpPos(s) # {} =>
          /\ Len(StripSign(ExpPart(s))) >= 1
          /\ AllDigits(StripSign(ExpPart(s)))

SpecialFloats ==
    { << "i", "n", "f" >>, << "i", "n", "f", "i", "n", "i", "t", "y" >>, << "n", "a", "n" >> }

RECURSIVE Normalize(_, _)
Normalize(mant, exp) ==
    IF mant = 0 THEN [mant |-> 0, exp |-> 0]
    ELSE IF mant % 10 = 0 THEN Normalize(mant \div 10, exp + 1)
    ELSE [mant |-> mant, exp |-> exp]

NumberValue(s) ==
    LET m == MantPart(s)
        e == ExpPart(s)
        ev == IF e = << >> THEN 0
              ELSE IF e[1] = "-" THEN 0 - DigitsVal(StripSign(e))
              ELSE DigitsVal(StripSign(e))
    IN Normalize(DigitsVal(IntPart(m) \o FracPart(m)), ev - Len(FracPart(m)))

\* Ok(v) is Some(v), Err(_) is None
parse_float(tok) ==
    LET body == StripSign(tok)
        neg == HasSign(tok) /\ tok[1] = "-"
    IN IF LowerSeq(body) \in SpecialFloats
         THEN Some([kind |-> IF LowerSeq(body) = << "n", "a", "n" >> THEN "nan" ELSE "inf",
                    neg |-> neg, mant |-> 0, exp |-> 0])
       ELSE IF IsNumber(body)
         THEN Some([kind |-> "num", neg |-> neg,
                    mant |-> NumberValue(body).mant, exp |-> NumberValue(body).exp])
       ELSE None

(***************************************************************************)
(* OrderType, TradeToken                                                   *)
(***************************************************************************)
\* str::to_lowercase on the command keywords
to_lowercase(command) ==
    CASE command = "BUY" -> "buy" [] command = "Buy" -> "buy"
      [] command = "SELL" -> "sell" [] command = "Sell" -> "sell"
      [] OTHER -> command

\* impl FromStr for OrderType: Ok(o) is Some(o), Err(()) is None
from_str(s) ==
    CASE s = "buy" -> Some("Buy")
      [] s = "sell" -> Some("Sell")
      [] OTHER -> None

\* impl Display for OrderType
order_type_fmt(o) == IF o = "Buy" THEN "buy" ELSE "sell"

TradeToken(contract, amount, slippage, order_type) ==
    [contract |-> contract, amount |-> amount, slippage |-> slippage, order_type |-> order_type]

\* all three optional fields are present
Complete(tt) == is_some(tt.contract) /\ is_some(tt.amount) /\ is_some(tt.slippage)

\* impl Display for TradeToken: Some(text) when the three unwraps succeed, None
\* when one of them panics.  The text is kept as its four substituted values.
trade_token_fmt(tt) ==
    IF is_some(tt.contract) /\ is_some(tt.amount) /\ is_some(tt.slippage)
      THEN Some([contract |-> unwrap(tt.contract), amount |-> unwrap(tt.amount),
                 slippage |-> unwrap(tt.slippage), order_type |-> order_type_fmt(tt.order_type),
                 mark |-> IF tt.order_type = "Buy" THEN "green" ELSE "red"])
      ELSE None

\* the value of the lazy_static TRADE_TOKEN
InitTradeToken == TradeToken(None, None, None, "Buy")

(***************************************************************************)
(* The validators.  Each returns its result and the value the store has    *)
(* after the call, given the value `store` it had before.                  *)
(***************************************************************************)
\* the contract test of validate_tradetoken_args
contract_ok(arg) == Len(arg) = AddrLen /\ starts_with(arg, Prefix0x)

\* as validate_tradetoken_args, but the count test lets longer lists through
validate_tradetoken_args_min3(args, order_type, store) ==
    IF Len(args) < 3
      THEN [ret |-> None, store |-> store]
      ELSE LET trade_token ==
                   TradeToken(IF contract_ok(args[1]) THEN Some(args[1]) ELSE None,
                              parse_float(args[2]),
                              parse_float(args[3]),
                              order_type)
           IN [ret |-> Some(trade_token), store |-> trade_token]

\* as validate_tradetoken_args, but TRADE_TOKEN is written only for a complete intent
validate_tradetoken_args_keep(args, order_type, store) ==
    IF Len(args) # 3
      THEN [ret |-> None, store |-> store]
      ELSE LET trade_token ==
                   TradeToken(IF contract_ok(args[1]) THEN Some(args[1]) ELSE None,
                              parse_float(args[2]),
                              parse_float(args[3]),
                              order_type)
           IN [ret |-> Some(trade_token),
               store |-> IF Complete(trade_token) THEN trade_token ELSE store]

\* as validate_tradetoken_args, but a wrong count puts the empty intent into TRADE_TOKEN
validate_tradetoken_args_reset(args, order_type, store) ==
    IF Len(args) # 3
      THEN [ret |-> None, store |-> InitTradeToken]
      ELSE LET trade_token ==
                   TradeToken(IF contract_ok(args[1]) THEN Some(args[1]) ELSE None,
                              parse_float(args[2]),
                              parse_float(args[3]),
                              order_type)
           IN [ret |-> Some(trade_token), store |-> trade_token]

validate_tradetoken_args(args, order_type, store) ==
    IF Len(args) # 3
      THEN [ret |-> None, store |-> store]
      ELSE LET trade_token ==
                   TradeToken(IF contract_ok(args[1]) THEN Some(args[1]) ELSE None,
                              parse_float(args[2]),
                              parse_float(args[3]),
                              order_type)
           IN [ret |-> Some(trade_token), store |-> trade_token]

\* as wallet_ok, but longer tokens pass the length test
wallet_ok_min(wallet) == starts_with(wallet, Prefix0x) /\ Len(wallet) >= AddrLen

\* the wallet test of validate_watchwallets_args
wallet_ok(wallet) == starts_with(wallet, Prefix0x) /\ Len(wallet) = AddrLen

\* the for loop of validate_watchwallets_args, from position i on
RECURSIVE push_wallets(_, _, _)
push_wallets(args, i, watched_wallets) ==
    IF i > Len(args) THEN watched_wallets
    ELSE push_wallets(args, i + 1,
                      IF wallet_ok(args[i]) THEN Append(watched_wallets, args[i])
                      ELSE watched_wallets)

\* as validate_watchwallets_args, but WATCHED_WALLETS is written only when a wallet is valid
validate_watchwallets_args_keep(args, store) ==
    LET watched_wallets == push_wallets(args, 1, << >>)
    IN [ret |-> IF watched_wallets = << >> THEN None ELSE Some(watched_wallets),
        store |-> IF watched_wallets = << >> THEN store ELSE watched_wallets]

validate_watchwallets_args(args, store) ==
    LET watched_wallets == push_wallets(args, 1, << >>)
    IN [ret |-> IF watched_wallets = << >> THEN None ELSE Some(watched_wallets),
        store |-> watched_wallets]

(***************************************************************************)
(* Updates.  A message is kept as filter_command and parse_command leave   *)
(* it: the command keyword ("" for text that is no command of the bot) and *)
(* the argument tokens.  A callback query carries its data and the id of   *)
(* the message whose button was pressed.                                   *)
(***************************************************************************)
Message(cmd, args) == [kind |-> "message", cmd |-> cmd, args |-> args, data |-> None, msg |-> 0]
CallbackQuery(data, msg) == [kind |-> "callback", cmd |-> "", args |-> << >>, data |-> data, msg |-> msg]

\* argument lists of /buy and /sell: every mix of valid and invalid fields, and
\* the wrong counts 0, 1, 2 and 4
TradeArgLists ==
    ({GoodAddr, TinyAddr} \X {Tok1p5, TokAbc} \X {Tok0p5, TokDot})
    \cup { << >>, << GoodAddr >>, << GoodAddr, Tok1p5 >>, << GoodAddr, Tok1p5, Tok0p5, Tok0p5 >> }

SellArgLists ==
    { << GoodAddr, Tok1p5, Tok0p5 >>, << NoPrefixAddr, TokNeg, TokNan >>, << GoodAddr, Tok1p5 >> }

\* argument lists of /watch
WatchArgLists ==
    { << >>, << GoodAddr >>, << TinyAddr, TokAbc >>, << GoodAddr, TokAbc >>,
      << ShortAddr, OtherAddr, LongAddr, GoodAddr, NoPrefixAddr >> }

Messages ==
    {Message(cmd, << >>) : cmd \in {"help", "balance", "tokens", "gas", "cancel", ""}}
    \cup {Message("buy", args) : args \in TradeArgLists}
    \cup {Message("sell", args) : args \in SellArgLists}
    \cup {Message("watch", args) : args \in WatchArgLists}

\* callback data: absent, the two buttons of make_yes_no_keyboard, anything else
Payloads == {None, Some("yes"), Some("no"), Some("other")}

(***************************************************************************)
(* schema(): the endpoint that handles update u of a chat whose dialogue   *)
(* is in state st; "none" when no branch matches.                          *)
(***************************************************************************)
\* as schema, but the Watch branch sits inside case![State::Start]
schema_watch_in_start(st, u) ==
    IF u.kind = "message"
      THEN IF u.cmd = "" THEN "invalid_state"
           ELSE IF st = "Start" /\ u.cmd \in {"buy", "sell"} THEN "trade_token"
           ELSE IF st = "Start" /\ u.cmd = "balance" THEN "get_eth_balance"
           ELSE IF st = "Start" /\ u.cmd = "tokens" THEN "get_erc20_balances"
           ELSE IF st = "Start" /\ u.cmd = "gas" THEN "get_eth_gas"
           ELSE IF st = "Start" /\ u.cmd = "watch" THEN "watch_wallets"
           ELSE IF u.cmd = "help" THEN "help"
           ELSE IF u.cmd = "cancel" THEN "cancel"
           ELSE "invalid_state"
      ELSE IF st = "Confirm" THEN "confirm"
           ELSE "none"

\* as schema, but the callback branch has no case![State::Confirm]
schema_callback_any(st, u) ==
    IF u.kind = "message"
      THEN IF u.cmd = "" THEN "invalid_state"
           ELSE IF st = "Start" /\ u.cmd \in {"buy", "sell"} THEN "trade_token"
           ELSE IF st = "Start" /\ u.cmd = "balance" THEN "get_eth_balance"
           ELSE IF st = "Start" /\ u.cmd = "tokens" THEN "get_erc20_balances"
           ELSE IF st = "Start" /\ u.cmd = "gas" THEN "get_eth_gas"
           ELSE IF u.cmd = "watch" THEN "watch_wallets"
           ELSE IF u.cmd = "help" THEN "help"
           ELSE IF u.cmd = "cancel" THEN "cancel"
           ELSE "invalid_state"
      ELSE "confirm"

schema(st, u) ==
    IF u.kind = "message"
      THEN IF u.cmd = "" THEN "invalid_state"
           ELSE IF st = "Start" /\ u.cmd \in {"buy", "sell"} THEN "trade_token"
           ELSE IF st = "Start" /\ u.cmd = "balance" THEN "get_eth_balance"
           ELSE IF st = "Start" /\ u.cmd = "tokens" THEN "get_erc20_balances"
           ELSE IF st = "Start" /\ u.cmd = "gas" THEN "get_eth_gas"
           ELSE IF u.cmd = "watch" THEN "watch_wallets"
           ELSE IF u.cmd = "help" THEN "help"
           ELSE IF u.cmd = "cancel" THEN "cancel"
           ELSE "invalid_state"
      ELSE IF st = "Confirm" THEN "confirm"
           ELSE "none"

(***************************************************************************)
(* The handlers, each as the list of its steps in program order.           *)
(***************************************************************************)
\* as reject_msgs, but the first missing field ends the checks
reject_msgs_first(trade_token) ==
    IF is_some(trade_token)
      THEN IF ~is_some(unwrap(trade_token).contract) THEN << "send:contract_incorrect" >>
           ELSE IF ~is_some(unwrap(trade_token).amount) THEN << "send:amount_incorrect" >>
           ELSE IF ~is_some(unwrap(trade_token).slippage) THEN << "send:slippage_incorrect" >>
           ELSE << >>
      ELSE << "send:parameters_incorrect" >>

\* trade_token, lines 204-234: the messages sent for the validator's result
reject_msgs(trade_token) ==
    IF is_some(trade_token)
      THEN (IF is_some(unwrap(trade_token).contract) THEN << >> ELSE << "send:contract_incorrect" >>)
           \o (IF is_some(unwrap(trade_token).amount) THEN << >> ELSE << "send:amount_incorrect" >>)
           \o (IF is_some(unwrap(trade_token).slippage) THEN << >> ELSE << "send:slippage_incorrect" >>)
      ELSE << "send:parameters_incorrect" >>

\* as incorrect_params, but a missing slippage does not set the flag
incorrect_params_no_slippage(trade_token) ==
    IF is_some(trade_token)
      THEN \/ ~is_some(unwrap(trade_token).contract)
           \/ ~is_some(unwrap(trade_token).amount)
      ELSE TRUE

\* trade_token, lines 202-234: the value of incorrect_params at line 236
incorrect_params(trade_token) ==
    IF is_some(trade_token)
      THEN \/ ~is_some(unwrap(trade_token).contract)
           \/ ~is_some(unwrap(trade_token).amount)
           \/ ~is_some(unwrap(trade_token).slippage)
      ELSE TRUE

\* as trade_token_tail, but dialogue.update comes before the two sends
trade_token_tail_update_first(trade_token) ==
    IF ~incorrect_params(trade_token)
      THEN << "dialogue.update",
              (IF is_some(trade_token) /\ is_some(trade_token_fmt(unwrap(trade_token)))
                 THEN "send:summary" ELSE "panic") ,
              "send:prompt" >>
      ELSE << "dialogue.exit" >>

\* trade_token, lines 236-243
trade_token_tail(trade_token) ==
    IF ~incorrect_params(trade_token)
      THEN << (IF is_some(trade_token) /\ is_some(trade_token_fmt(unwrap(trade_token)))
                 THEN "send:summary" ELSE "panic") ,
              "send:prompt", "dialogue.update" >>
      ELSE << "dialogue.exit" >>

trade_token_ops(trade_token) ==
    << "get_me", "validate_tradetoken_args" >> \o reject_msgs(trade_token) \o trade_token_tail(trade_token)

\* as confirm_ops, but dialogue.exit() is reached only from the Some(d) arm
confirm_ops_exit_in_some(data) ==
    IF is_some(data)
      THEN << "answer_callback_query", "delete_message" >>
           \o (IF unwrap(data) = "yes" THEN << "send:executed" >>
               ELSE IF unwrap(data) = "no" THEN << "send:not_executed" >>
               ELSE << >>)
           \o << "dialogue.exit" >>
      ELSE << "send:button_error" >>

\* as confirm_ops, but dialogue.exit() comes before the transport calls
confirm_ops_exit_first(data) ==
    << "dialogue.exit" >>
    \o (IF is_some(data)
          THEN << "answer_callback_query", "delete_message" >>
               \o (IF unwrap(data) = "yes" THEN << "send:executed" >>
                   ELSE IF unwrap(data) = "no" THEN << "send:not_executed" >>
                   ELSE << >>)
          ELSE << "send:button_error" >>)

confirm_ops(data) ==
    (IF is_some(data)
       THEN << "answer_callback_query", "delete_message" >>
            \o (IF unwrap(data) = "yes" THEN << "send:executed" >>
                ELSE IF unwrap(data) = "no" THEN << "send:not_executed" >>
                ELSE << >>)
       ELSE << "send:button_error" >>)
    \o << "dialogue.exit" >>

\* as get_eth_balance_ops, but with the dialogue.update of trade_token after the send
get_eth_balance_ops_update == << "alchemy_api::get_eth_balance", "send:balance", "dialogue.update" >>

get_eth_balance_ops == << "alchemy_api::get_eth_balance", "send:balance" >>

watch_wallets_ops(wallets) ==
    << "get_me", "validate_watchwallets_args" >>
    \o (IF is_some(wallets) THEN << "send:wallets" >> ELSE << "send:wallets_incorrect" >>)

get_erc20_balances_ops == << "alchemy_api::get_token_balances", "send:token_balances" >>

get_eth_gas_ops == << "alchemy_api::get_gas", "etherscan_api::get_eth_price", "send:gas" >>

\* as cancel_ops, but without dialogue.exit()
cancel_ops_no_exit == << "send:cancelled" >>

cancel_ops == << "send:cancelled", "dialogue.exit" >>

\* as help_ops, but the dialogue is reset after the reply
help_ops_exit == << "send:help", "dialogue.exit" >>

help_ops == << "send:help" >>

\* as invalid_state_ops, but the dialogue is reset after the reply
invalid_state_ops_exit == << "send:invalid_state", "dialogue.exit" >>

invalid_state_ops == << "send:invalid_state" >>

(***************************************************************************)
(* Running a handler.  A step that calls the transport or a collaborator   *)
(* may fail; the handler then stops there: `?` returns the error, unwrap() *)
(* panics.  f is the step that fails, 0 when none does.                    *)
(***************************************************************************)
Infallible == {"validate_tradetoken_args", "validate_watchwallets_args", "dialogue.update", "dialogue.exit"}

\* steps whose failure is an unwrap() or happens inside a collaborator that returns no Result
Panics == {"panic", "get_me", "alchemy_api::get_eth_balance", "alchemy_api::get_token_balances",
           "alchemy_api::get_gas", "etherscan_api::get_eth_price"}

Has(ops, op) == \E i \in 1..Len(ops) : ops[i] = op

FailPoints(ops) ==
    LET sure == {i \in 1..Len(ops) : ops[i] = "panic"}
    IN IF sure = {}
         THEN {0} \cup {i \in 1..Len(ops) : ops[i] \notin Infallible}
         ELSE {i \in 1..Min(sure) : ops[i] \notin Infallible}

Done(ops, f) == IF f = 0 THEN ops ELSE SubSeq(ops, 1, f - 1)

Outcome(ops, f) ==
    IF f = 0 THEN "Ok"
    ELSE IF ops[f] \in Panics THEN "Panic"
    ELSE "Err"

(***************************************************************************)
(* State                                                                   *)
(***************************************************************************)
VARIABLES
    state,            \* chat -> State of its dialogue in InMemStorage (absent is the default, Start)
    TRADE_TOKEN,      \* the static TRADE_TOKEN
    WATCHED_WALLETS,  \* the static WATCHED_WALLETS
    prompts,          \* chat -> ids of the confirmation prompts sent to it and not deleted
    cycle,            \* chat -> id of the prompt sent when its dialogue entered Confirm, 0 once
                      \* that prompt is deleted or the dialogue is back in Start (history: the
                      \* code drops the Message that send returns)
    last              \* the handler run that has just ended: its chat, update, steps done and
                      \* result; Idle once the dispatcher has taken the result

vars == << state, TRADE_TOKEN, WATCHED_WALLETS, prompts, cycle, last >>

Idle == [chat |-> 0, handler |-> "idle", upd |-> Message("", << >>), pre |-> "Start",
         log |-> << >>, res |-> "Ok", ret |-> None]

Init ==
    /\ state = [c \in Chats |-> "Start"]
    /\ TRADE_TOKEN = InitTradeToken
    /\ WATCHED_WALLETS = << >>
    /\ prompts = [c \in Chats |-> {}]
    /\ cycle = [c \in Chats |-> 0]
    /\ last = Idle

\* the id of the chat's next prompt: message ids grow within a chat
FreshMsg(c) == IF prompts[c] = {} THEN 1
               ELSE (CHOOSE m \in prompts[c] : \A n \in prompts[c] : n <= m) + 1

\* Handler h runs for update u of chat c: its steps before f take effect.
\* An endpoint runs once the dispatcher has taken the result of the run before.
\*   tt, ww: what the validator call of the handler leaves in the two stores
\*   ret:    what that validator call returns
Run(c, u, h, ops, f, tt, ww, ret) ==
    \E done \in {Done(ops, f)} :
        /\ state' = [state EXCEPT ![c] =
                        IF Has(done, "dialogue.update") THEN "Confirm"
                        ELSE IF Has(done, "dialogue.exit") THEN "Start"
                        ELSE @]
        /\ TRADE_TOKEN' = IF Has(done, "validate_tradetoken_args") THEN tt ELSE TRADE_TOKEN
        /\ WATCHED_WALLETS' = IF Has(done, "validate_watchwallets_args") THEN ww ELSE WATCHED_WALLETS
        /\ prompts' = [prompts EXCEPT ![c] =
                        IF Has(done, "send:prompt") THEN @ \cup {FreshMsg(c)}
                        ELSE IF Has(done, "delete_message") THEN @ \ {u.msg}
                        ELSE @]
        /\ cycle' = [cycle EXCEPT ![c] =
                        IF Has(done, "dialogue.update") THEN FreshMsg(c)
                        ELSE IF Has(done, "dialogue.exit") THEN 0
                        ELSE IF Has(done, "delete_message") /\ u.msg = @ THEN 0
                        ELSE @]
        /\ last' = [chat |-> c, handler |-> h, upd |-> u, pre |-> state[c],
                    log |-> done, res |-> Outcome(ops, f),
                    ret |-> IF Has(done, "validate_tradetoken_args") \/ Has(done, "validate_watchwallets_args")
                              THEN ret ELSE None]

(***************************************************************************)
(* The endpoints                                                           *)
(***************************************************************************)
\* cap: the largest prompt id the chat may reach, so the undeleted prompts it may hold
trade_token_cap(c, cap) ==
    /\ last = Idle
    /\ \E u \in Messages :
        /\ schema(state[c], u) = "trade_token"
        /\ FreshMsg(c) <= cap
        /\ \E v \in {validate_tradetoken_args(u.args, unwrap(from_str(to_lowercase(u.cmd))), TRADE_TOKEN)} :
           \E ops \in {trade_token_ops(v.ret)} :
           \E f \in FailPoints(ops) :
               Run(c, u, "trade_token", ops, f, v.store, WATCHED_WALLETS, v.ret)

confirm(c) ==
    /\ last = Idle
    /\ \E data \in Payloads, m \in prompts[c] :
       \E u \in {CallbackQuery(data, m)} :
           /\ schema(state[c], u) = "confirm"
           /\ \E ops \in {confirm_ops(data)} :
              \E f \in FailPoints(ops) :
                  Run(c, u, "confirm", ops, f, TRADE_TOKEN, WATCHED_WALLETS, None)

trade_token(c) == trade_token_cap(c, MaxPrompts)

get_eth_balance(c) ==
    /\ last = Idle
    /\ \E u \in Messages :
        /\ schema(state[c], u) = "get_eth_balance"
        /\ \E f \in FailPoints(get_eth_balance_ops) :
               Run(c, u, "get_eth_balance", get_eth_balance_ops, f, TRADE_TOKEN, WATCHED_WALLETS, None)

watch_wallets(c) ==
    /\ last = Idle
    /\ \E u \in Messages :
        /\ schema(state[c], u) = "watch_wallets"
        /\ \E v \in {validate_watchwallets_args(u.args, WATCHED_WALLETS)} :
           \E ops \in {watch_wallets_ops(v.ret)} :
           \E f \in FailPoints(ops) :
               Run(c, u, "watch_wallets", ops, f, TRADE_TOKEN, v.store, v.ret)

get_erc20_balances(c) ==
    /\ last = Idle
    /\ \E u \in Messages :
        /\ schema(state[c], u) = "get_erc20_balances"
        /\ \E f \in FailPoints(get_erc20_balances_ops) :
               Run(c, u, "get_erc20_balances", get_erc20_balances_ops, f, TRADE_TOKEN, WATCHED_WALLETS, None)

get_eth_gas(c) ==
    /\ last = Idle
    /\ \E u \in Messages :
        /\ schema(state[c], u) = "get_eth_gas"
        /\ \E f \in FailPoints(get_eth_gas_ops) :
               Run(c, u, "get_eth_gas", get_eth_gas_ops, f, TRADE_TOKEN, WATCHED_WALLETS, None)

cancel(c) ==
    /\ last = Idle
    /\ \E u \in Messages :
        /\ schema(state[c], u) = "cancel"
        /\ \E f \in FailPoints(cancel_ops) :
               Run(c, u, "cancel", cancel_ops, f, TRADE_TOKEN, WATCHED_WALLETS, None)

help(c) ==
    /\ last = Idle
    /\ \E u \in Messages :
        /\ schema(state[c], u) = "help"
        /\ \E f \in FailPoints(help_ops) :
               Run(c, u, "help", help_ops, f, TRADE_TOKEN, WATCHED_WALLETS, None)

invalid_state(c) ==
    /\ last = Idle
    /\ \E u \in Messages :
        /\ schema(state[c], u) = "invalid_state"
        /\ \E f \in FailPoints(invalid_state_ops) :
               Run(c, u, "invalid_state", invalid_state_ops, f, TRADE_TOKEN, WATCHED_WALLETS, None)

\* a callback query that no branch of schema() matches: no endpoint runs
unhandled(c) ==
    /\ last = Idle
    /\ \E data \in Payloads, m \in prompts[c] :
       \E u \in {CallbackQuery(data, m)} :
           /\ schema(state[c], u) = "none"
           /\ Run(c, u, "none", << >>, 0, TRADE_TOKEN, WATCHED_WALLETS, None)

\* the dispatcher takes the handler's result and goes on to the next update
dispatch ==
    /\ last # Idle
    /\ last' = Idle
    /\ UNCHANGED << state, TRADE_TOKEN, WATCHED_WALLETS, prompts, cycle >>

Next ==
    \/ \E c \in Chats :
        \/ trade_token(c)
        \/ confirm(c)
        \/ get_eth_balance(c)
        \/ watch_wallets(c)
        \/ get_erc20_balances(c)
        \/ get_eth_gas(c)
        \/ cancel(c)
        \/ help(c)
        \/ invalid_state(c)
        \/ unhandled(c)
    \/ dispatch

Spec == Init /\ [][Next]_vars

(***************************************************************************)
(* The two validators side by side: both are called for the same address   *)
(* token, the trade validator with two number tokens beside it; `last`     *)
(* keeps the tokens and the two results.                                   *)
(***************************************************************************)
AddrToks == {GoodAddr, OtherAddr, ShortAddr, LongAddr, NoPrefixAddr, TinyAddr, UpperXAddr, TokAbc}
NumToks == {Tok1p5, TokNeg, TokAbc, TokDot}

validate_address ==
    /\ last = Idle
    /\ \E tok \in AddrToks, amount \in NumToks, slippage \in NumToks, order_type \in {"Buy", "Sell"} :
       \E t \in {validate_tradetoken_args(<< tok, amount, slippage >>, order_type, TRADE_TOKEN)} :
       \E w \in {validate_watchwallets_args(<< tok >>, WATCHED_WALLETS)} :
           /\ TRADE_TOKEN' = t.store
           /\ WATCHED_WALLETS' = w.store
           /\ last' = [chat |-> 0, handler |-> "validators",
                       upd |-> Message("", << tok, amount, slippage >>), pre |-> "Start",
                       log |-> << "validate_tradetoken_args", "validate_watchwallets_args" >>,
                       res |-> "Ok", ret |-> << t.ret, w.ret >>]
           /\ UNCHANGED << state, prompts, cycle >>

ValidatorNext ==
    \/ validate_address
    \/ dispatch

ValidatorSpec == Init /\ [][ValidatorNext]_vars

(***************************************************************************)
(* The dispatcher with room for one more undeleted prompt per chat: a chat *)
(* whose cycle was ended by /cancel, which deletes no prompt, can start    *)
(* the next cycle.                                                         *)
(***************************************************************************)
trade_token_again(c) == trade_token_cap(c, MaxPrompts + 1)

CycleNext ==
    \/ \E c \in Chats :
        \/ trade_token_again(c)
        \/ confirm(c)
        \/ get_eth_balance(c)
        \/ watch_wallets(c)
        \/ get_erc20_balances(c)
        \/ get_eth_gas(c)
        \/ cancel(c)
        \/ help(c)
        \/ invalid_state(c)
        \/ unhandled(c)
    \/ dispatch

CycleSpec == Init /\ [][CycleNext]_vars

(***************************************************************************)
(* Properties.  They read `last`, the handler run that has just ended, and *)
(* the state it left.  What a token is worth is stated here a second time, *)
(* by its shape, not through the validators.                               *)
(***************************************************************************)
IsAddress(tok) == Len(tok) = 42 /\ tok[1] = "0" /\ tok[2] = "x"

\* the number tokens of the model that Rust parses as a float
FloatToks == {Tok1p5, Tok0p5, TokNeg, TokNan}

Sent(op) == Has(last.log, op)
Post == state[last.chat]
RanTradeToken == last.handler = "trade_token"
AllThreePresent(o) ==
    /\ o # << >>
    /\ o[1].contract # << >>
    /\ o[1].amount # << >>
    /\ o[1].slippage # << >>

\* C1: the summary is sent, and a dialogue enters Confirm, only in a trade_token
\* run whose validated intent has contract, amount and slippage; no run displays
\* (unwraps) an intent with a field missing.
C1_SummaryOnlyForCompleteIntent ==
    /\ (Sent("send:summary") \/ Sent("send:prompt") \/ Sent("dialogue.update"))
          => RanTradeToken /\ AllThreePresent(last.ret)
    /\ (last # Idle /\ last.pre = "Start" /\ Post = "Confirm")
          => RanTradeToken /\ AllThreePresent(last.ret)
    /\ (RanTradeToken /\ last.res = "Panic") => last.log = << >>
    /\ (RanTradeToken /\ Sent("validate_tradetoken_args") /\ ~AllThreePresent(last.ret))
          => Post = "Start"

C1_Witness ==
    /\ RanTradeToken
    /\ Sent("send:summary")
    /\ Post = "Confirm"
    /\ AllThreePresent(last.ret)

OwnHandler(cmd) ==
    CASE cmd = "help" -> "help"
      [] cmd = "balance" -> "get_eth_balance"
      [] cmd = "tokens" -> "get_erc20_balances"
      [] cmd = "gas" -> "get_eth_gas"
      [] cmd = "watch" -> "watch_wallets"

\* C2 as stated: help, balance, tokens, gas and watch reach their own handler
\* only in Start, and reach invalid_state in Confirm.
C2_AllFiveOnlyInStart ==
    (last.upd.kind = "message" /\ last.upd.cmd \in {"help", "balance", "tokens", "gas", "watch"})
       => /\ last.pre = "Start" => last.handler = OwnHandler(last.upd.cmd)
          /\ last.pre = "Confirm" => last.handler = "invalid_state"

\* C2 amended: balance, tokens and gas reach their own handler only in Start and
\* reach invalid_state in Confirm; help and watch reach their own handler in
\* both states.
C2_OnlyBalanceTokensGasNeedStart ==
    /\ (last.upd.kind = "message" /\ last.upd.cmd \in {"balance", "tokens", "gas"})
          => /\ last.pre = "Start" => last.handler = OwnHandler(last.upd.cmd)
             /\ last.pre = "Confirm" => last.handler = "invalid_state"
    /\ (last.upd.kind = "message" /\ last.upd.cmd \in {"help", "watch"})
          => last.handler = OwnHandler(last.upd.cmd)

C2_Witness ==
    /\ last.upd.kind = "message"
    /\ last.upd.cmd = "watch"
    /\ last.pre = "Confirm"
    /\ last.handler = "watch_wallets"
    /\ last.res = "Ok"

\* C3: a callback delivered to a dialogue in Confirm is handled by confirm, and
\* when none of its transport calls fails the dialogue is in Start afterwards,
\* whatever the payload.
C3_ConfirmEndsInStart ==
    (last.upd.kind = "callback" /\ last.pre = "Confirm")
       => /\ last.handler = "confirm"
          /\ last.res = "Ok" => (Post = "Start" /\ Sent("dialogue.exit"))

C3_Witness ==
    /\ last.handler = "confirm"
    /\ last.upd.data = << >>
    /\ last.res = "Ok"
    /\ Post = "Start"

\* C4: /cancel is handled by cancel in Start and in Confirm; when its send
\* succeeds the acknowledgement has been sent and the dialogue is in Start.
C4_CancelFromAnyState ==
    (last.upd.kind = "message" /\ last.upd.cmd = "cancel")
       => /\ last.handler = "cancel"
          /\ last.res = "Ok" => (Sent("send:cancelled") /\ Post = "Start")

C4_Witness ==
    /\ last.handler = "cancel"
    /\ last.pre = "Confirm"
    /\ last.res = "Ok"
    /\ Sent("send:cancelled")
    /\ Post = "Start"

\* C5: a buy/sell command with a number of argument tokens other than 3 gets no
\* intent from the validator, no summary and no prompt, and leaves the dialogue
\* in Start.
C5_WrongCountNoIntent ==
    (RanTradeToken /\ Len(last.upd.args) # 3)
       => /\ last.ret = << >>
          /\ ~Sent("send:summary")
          /\ ~Sent("send:prompt")
          /\ ~Sent("dialogue.update")
          /\ Post = "Start"

C5_Witness ==
    /\ RanTradeToken
    /\ Len(last.upd.args) = 4
    /\ Sent("validate_tradetoken_args")
    /\ Sent("send:parameters_incorrect")
    /\ last.res = "Ok"
    /\ Post = "Start"

\* C6 as stated: a confirm run whose payload is neither "yes" nor "no" (another
\* string, or absent) sends the generic error message.
C6_GenericErrorForOtherPayload ==
    (last.handler = "confirm" /\ last.res = "Ok"
        /\ last.upd.data \notin {<< "yes" >>, << "no" >>})
       => Sent("send:button_error")

IsReply(op) == op \in {"send:executed", "send:not_executed", "send:button_error"}

\* C7 as stated: every confirm run acknowledges the callback first, deletes the
\* prompt second and sends its reply only after these two.
C7_AckThenDeleteThenReply ==
    (last.handler = "confirm" /\ last.res = "Ok")
       => /\ Len(last.log) >= 2
          /\ last.log[1] = "answer_callback_query"
          /\ last.log[2] = "delete_message"
          /\ \A i \in 1..Len(last.log) : IsReply(last.log[i]) => i > 2

\* C8: after the validator has run on exactly 3 tokens, TRADE_TOKEN is the
\* intent of that call: each field present iff its token is valid, the contract
\* the token itself, the order type that of the command; whether or not the
\* intent is complete, and whatever TRADE_TOKEN held before.
C8_StoreHoldsBuiltIntent ==
    (RanTradeToken /\ Sent("validate_tradetoken_args") /\ Len(last.upd.args) = 3)
       => /\ last.ret = << TRADE_TOKEN >>
          /\ TRADE_TOKEN.contract =
                (IF IsAddress(last.upd.args[1]) THEN << last.upd.args[1] >> ELSE << >>)
          /\ (TRADE_TOKEN.amount # << >>) <=> (last.upd.args[2] \in FloatToks)
          /\ (TRADE_TOKEN.slippage # << >>) <=> (last.upd.args[3] \in FloatToks)
          /\ TRADE_TOKEN.order_type = (IF last.upd.cmd = "buy" THEN "Buy" ELSE "Sell")

C8_Witness ==
    /\ RanTradeToken
    /\ Sent("validate_tradetoken_args")
    /\ last.upd.cmd = "sell"
    /\ last.upd.args = << NoPrefixAddr, TokNeg, TokNan >>
    /\ TRADE_TOKEN = [contract |-> << >>,
                      amount |-> << [kind |-> "num", neg |-> TRUE, mant |-> 2, exp |-> 2] >>,
                      slippage |-> << [kind |-> "nan", neg |-> FALSE, mant |-> 0, exp |-> 0] >>,
                      order_type |-> "Sell"]

RanWatchWallets == last.handler = "watch_wallets" /\ Sent("validate_watchwallets_args")
ValidWallets == SelectSeq(last.upd.args, IsAddress)

\* C9: after /watch, WATCHED_WALLETS is the supplied tokens that start with 0x
\* and have length 42, in their order, and nothing else (empty when none is
\* valid); the validator returns that list when it is not empty and None when it
\* is, and then the bot sends "submitted wallets are incorrect".
C9_WatchListIsFilteredArgs ==
    RanWatchWallets
       => /\ WATCHED_WALLETS = ValidWallets
          /\ last.ret = (IF ValidWallets = << >> THEN << >> ELSE << ValidWallets >>)
          /\ last.res = "Ok" =>
                /\ Sent("send:wallets_incorrect") <=> (ValidWallets = << >>)
                /\ Sent("send:wallets") <=> (ValidWallets # << >>)

C9_Witness ==
    /\ RanWatchWallets
    /\ last.upd.args = << TinyAddr, TokAbc >>
    /\ WATCHED_WALLETS = << >>
    /\ last.res = "Ok"
    /\ Sent("send:wallets_incorrect")

IsReject(op) ==
    op \in {"send:contract_incorrect", "send:amount_incorrect", "send:slippage_incorrect",
            "send:parameters_incorrect"}

ExpectedRejects(args) ==
    (IF IsAddress(args[1]) THEN << >> ELSE << "send:contract_incorrect" >>)
    \o (IF args[2] \in FloatToks THEN << >> ELSE << "send:amount_incorrect" >>)
    \o (IF args[3] \in FloatToks THEN << >> ELSE << "send:slippage_incorrect" >>)

\* C10: a trade_token run on exactly 3 tokens whose sends succeed sends one
\* rejection message per invalid field, for contract, amount, slippage in that
\* order, so as many as there are invalid fields; if there is one, the dialogue
\* is in Start afterwards and no summary or prompt was sent.
C10_OneRejectionPerInvalidField ==
    (RanTradeToken /\ Len(last.upd.args) = 3 /\ last.res = "Ok")
       => /\ SelectSeq(last.log, IsReject) = ExpectedRejects(last.upd.args)
          /\ ExpectedRejects(last.upd.args) # << >>
                => /\ Post = "Start"
                   /\ Sent("dialogue.exit")
                   /\ ~Sent("send:summary")
                   /\ ~Sent("send:prompt")

C10_Witness ==
    /\ RanTradeToken
    /\ last.res = "Ok"
    /\ last.upd.args = << TinyAddr, TokAbc, TokDot >>
    /\ SelectSeq(last.log, IsReject)
          = << "send:contract_incorrect", "send:amount_incorrect", "send:slippage_incorrect" >>
    /\ Post = "Start"

(***************************************************************************)
(* Properties of a step.  In the step that runs a handler, the unprimed    *)
(* variables are the state before the run and last' is the run.            *)
(***************************************************************************)
\* C11: a message that is no command, in either state, and buy, sell, balance,
\* tokens or gas in Confirm, is handled by invalid_state: the "see /help" reply
\* is sent (when the send succeeds) and the dialogue states, TRADE_TOKEN and
\* WATCHED_WALLETS stay as they were.
C11_InvalidStateChangesNothing ==
    [][ (/\ last' # Idle
         /\ last'.upd.kind = "message"
         /\ \/ last'.upd.cmd = ""
            \/ /\ state[last'.chat] = "Confirm"
               /\ last'.upd.cmd \in {"buy", "sell", "balance", "tokens", "gas"})
        => /\ last'.handler = "invalid_state"
           /\ last'.res = "Ok" => last'.log = << "send:invalid_state" >>
           /\ state' = state
           /\ TRADE_TOKEN' = TRADE_TOKEN
           /\ WATCHED_WALLETS' = WATCHED_WALLETS
      ]_vars

C11_Witness ==
    /\ last.handler = "invalid_state"
    /\ last.upd.cmd = "sell"
    /\ last.pre = "Confirm"
    /\ Post = "Confirm"
    /\ last.res = "Ok"
    /\ Sent("send:invalid_state")

\* C12: help, balance, tokens, gas and watch, issued in Start, reach their own
\* handler, leave every dialogue state as it was (so the chat stays in Start)
\* and leave TRADE_TOKEN as it was; all but watch leave WATCHED_WALLETS as it was.
C12_InlineCommandsKeepState ==
    [][ (/\ last' # Idle
         /\ last'.upd.kind = "message"
         /\ last'.upd.cmd \in {"help", "balance", "tokens", "gas", "watch"}
         /\ state[last'.chat] = "Start")
        => /\ last'.handler = OwnHandler(last'.upd.cmd)
           /\ state' = state
           /\ state'[last'.chat] = "Start"
           /\ TRADE_TOKEN' = TRADE_TOKEN
           /\ last'.upd.cmd # "watch" => WATCHED_WALLETS' = WATCHED_WALLETS
      ]_vars

C12_Witness ==
    /\ last.handler = "watch_wallets"
    /\ last.pre = "Start"
    /\ Post = "Start"
    /\ last.res = "Ok"
    /\ last.upd.args = << GoodAddr, TokAbc >>
    /\ WATCHED_WALLETS = << GoodAddr >>
    /\ TRADE_TOKEN # InitTradeToken

\* position of step op in the run, 0 when the run did not make it
Pos(op) == IF Sent(op) THEN Min({i \in 1..Len(last.log) : last.log[i] = op}) ELSE 0

AllValid(args) ==
    /\ Len(args) = 3
    /\ IsAddress(args[1])
    /\ args[2] \in FloatToks
    /\ args[3] \in FloatToks

\* C13: a buy/sell command handled in Start whose three tokens are valid, and
\* whose sends succeed, sends the summary, then the prompt, and only then sets
\* the dialogue to Confirm; the intent has order type Buy for /buy and Sell for
\* /sell.  No trade_token run leaves the dialogue in Confirm without having
\* sent both.
C13_SummaryPromptThenConfirm ==
    /\ (RanTradeToken /\ AllValid(last.upd.args) /\ last.res = "Ok")
          => /\ last.pre = "Start"
             /\ 0 < Pos("send:summary")
             /\ Pos("send:summary") < Pos("send:prompt")
             /\ Pos("send:prompt") < Pos("dialogue.update")
             /\ Post = "Confirm"
             /\ last.ret[1].order_type = (IF last.upd.cmd = "buy" THEN "Buy" ELSE "Sell")
    /\ (RanTradeToken /\ Post = "Confirm")
          => /\ Sent("send:summary")
             /\ Sent("send:prompt")

C13_Witness ==
    /\ RanTradeToken
    /\ last.upd.cmd = "sell"
    /\ AllValid(last.upd.args)
    /\ last.res = "Ok"
    /\ Pos("send:summary") < Pos("send:prompt")
    /\ Pos("send:prompt") < Pos("dialogue.update")
    /\ Post = "Confirm"
    /\ last.ret[1].order_type = "Sell"

\* C14 as stated: while a dialogue stays in Confirm, no step replaces the intent
\* in TRADE_TOKEN, whichever chat the step handles.
C14_StoreKeptDuringCycle ==
    [][ \A c \in Chats :
            (state[c] = "Confirm" /\ state'[c] = "Confirm") => TRADE_TOKEN' = TRADE_TOKEN
      ]_vars

\* C15: a dialogue in Confirm leaves it only in a run of confirm or cancel for
\* its own chat: the dispatcher's step, every other handler and every update of
\* another chat leave it in Confirm.
C15_OnlyCallbackOrCancelLeavesConfirm ==
    [][ \A c \in Chats :
            (state[c] = "Confirm" /\ state'[c] # "Confirm")
               => /\ last'.chat = c
                  /\ last'.handler \in {"confirm", "cancel"}
      ]_vars

C15_Witness ==
    /\ last.handler = "help"
    /\ last.pre = "Confirm"
    /\ last.res = "Ok"
    /\ Post = "Confirm"
    /\ cycle[last.chat] \in prompts[last.chat]

\* C17: a callback query is handled by confirm exactly when the dialogue is in
\* Confirm, and confirm handles nothing else; a callback query for a dialogue
\* in Start runs no handler: no step is made, no prompt is deleted, and the
\* dialogue states and the two stores stay as they were.
C17_CallbackOnlyInConfirm ==
    [][ /\ (last' # Idle /\ last'.handler = "confirm")
            => /\ last'.upd.kind = "callback"
               /\ state[last'.chat] = "Confirm"
        /\ (last' # Idle /\ last'.upd.kind = "callback")
            => /\ state[last'.chat] = "Confirm" => last'.handler = "confirm"
               /\ state[last'.chat] = "Start"
                    => /\ last'.handler = "none"
                       /\ last'.log = << >>
                       /\ state' = state
                       /\ prompts' = prompts
                       /\ TRADE_TOKEN' = TRADE_TOKEN
                       /\ WATCHED_WALLETS' = WATCHED_WALLETS
      ]_vars

C17_Witness ==
    /\ last.upd.kind = "callback"
    /\ last.upd.data = Some("yes")
    /\ last.pre = "Start"
    /\ last.handler = "none"
    /\ Post = "Start"
    /\ last.upd.msg \in prompts[last.chat]

\* C18: a trade_token run whose command has not exactly three argument tokens
\* leaves TRADE_TOKEN as it was.
C18_WrongCountKeepsStore ==
    [][ (last' # Idle /\ last'.handler = "trade_token" /\ Len(last'.upd.args) # 3)
            => TRADE_TOKEN' = TRADE_TOKEN
      ]_vars

C18_Witness ==
    /\ RanTradeToken
    /\ Len(last.upd.args) = 2
    /\ Sent("validate_tradetoken_args")
    /\ last.ret = None
    /\ TRADE_TOKEN # InitTradeToken

\* C20: a confirm run in which a transport call fails makes no later step and
\* leaves the dialogue in Confirm; a trade_token run for three valid tokens in
\* which the send of the summary or of the prompt fails does not reach
\* dialogue.update and leaves the dialogue in Start, with TRADE_TOKEN already
\* holding the intent of this command.
C20_FailureAbortsHandler ==
    /\ (last.handler = "confirm" /\ last.res = "Err")
          => /\ Post = "Confirm"
             /\ ~Sent("dialogue.exit")
             /\ Len(last.log) < Len(confirm_ops(last.upd.data))
             /\ last.log = SubSeq(confirm_ops(last.upd.data), 1, Len(last.log))
    /\ (RanTradeToken /\ AllValid(last.upd.args) /\ last.res = "Err")
          => /\ Post = "Start"
             /\ ~Sent("dialogue.update")
             /\ ~Sent("send:prompt")
             /\ AllThreePresent(last.ret)
             /\ TRADE_TOKEN = last.ret[1]

C20_Witness ==
    /\ last.handler = "confirm"
    /\ last.res = "Err"
    /\ last.log = << "answer_callback_query", "delete_message" >>
    /\ Post = "Confirm"
    /\ last.upd.msg \notin prompts[last.chat]

\* C16: for one address token given to both validators, the trade validator
\* fills the contract field, and the watch validator keeps the token, exactly
\* when the token has 42 characters of which the first two are "0x"; what is
\* accepted is stored as it came, whatever its other characters and whatever
\* the amount and slippage tokens are.
C16_SameAddressPredicate ==
    last.handler = "validators"
       => LET tok == last.upd.args[1]
              tt == last.ret[1]
              ww == last.ret[2]
          IN /\ is_some(tt)
             /\ is_some(unwrap(tt).contract) <=> IsAddress(tok)
             /\ is_some(ww) <=> IsAddress(tok)
             /\ is_some(unwrap(tt).contract) <=> is_some(ww)
             /\ IsAddress(tok) => /\ unwrap(tt).contract = Some(tok)
                                  /\ ww = Some(<< tok >>)
                                  /\ WATCHED_WALLETS = << tok >>
             /\ ~IsAddress(tok) => WATCHED_WALLETS = << >>
             /\ TRADE_TOKEN = unwrap(tt)

C16_Witness ==
    /\ last.handler = "validators"
    /\ last.upd.args = << OtherAddr, TokAbc, TokDot >>
    /\ TRADE_TOKEN.contract = Some(OtherAddr)
    /\ TRADE_TOKEN.amount = None
    /\ WATCHED_WALLETS = << OtherAddr >>

\* C19 as stated: a button press that confirm handles was made on the prompt of
\* the dialogue's current cycle, and when the run ends the cycle no undeleted
\* prompt of that cycle is left.
C19_CallbackFromCurrentPrompt ==
    [][ (last' # Idle /\ last'.handler = "confirm" /\ is_some(last'.upd.data))
            => /\ last'.upd.msg = cycle[last'.chat]
               /\ Has(last'.log, "dialogue.exit") => cycle[last'.chat] \notin prompts'[last'.chat]
      ]_vars

====
